---- MODULE Spec2Model ----
(***************************************************************************)
(* EcoSort reward / transaction core.                                      *)
(*                                                                         *)
(* The authoritative store (the Supabase tables profiles, scan_history,    *)
(* marketplace_listings, orders) is shared by client sessions: the         *)
(* Marketplace page (useMarketplace + Marketplace.tsx), the scanner hook   *)
(* (useWasteScanner), the admin review tab (PendingScansTab) and the Auth  *)
(* page (migrateGuestData).  Every handler is an async function; its       *)
(* suspension points are its awaited store calls, so each awaited call is  *)
(* one step of the session that runs the handler.  A store call either     *)
(* takes effect or returns an error (network, policy): ok \in BOOLEAN.     *)
(*                                                                         *)
(* system_notifications and messages are write-only sinks for this core;   *)
(* their rows are not kept, only the outcome of the insert where the code  *)
(* branches on it.                                                         *)
(***************************************************************************)
EXTENDS Integers, Sequences, FiniteSets, TLC

\* ------------------------------------------------------------- bounds ---
MaxOps == 3          \* handler invocations started in one behaviour
MaxListings == 2     \* rows of marketplace_listings
MaxScans == 3        \* rows of scan_history

\* the range classify-waste clamps points to
MinPoints == 5
MaxPoints == 30

\* --------------------------------------------------------------- cast ---
Seller == "ann"
Users == {"ann", "bob", "cy"}
Admins == {"adm1", "adm2"}
Devices == {"d1", "d2"}
NoUser == "none"

VARIABLES
    profiles,              \* table profiles: user id -> row
    scan_history,          \* table scan_history: sequence of rows, id = index
    marketplace_listings,  \* table marketplace_listings: sequence of rows, id = index
    orders,                \* table orders: sequence of rows
    market,                \* Marketplace page state, one session per user
    adminTab,              \* PendingScansTab state, one session per admin
    scanner,               \* useWasteScanner state and AuthContext, one per device
    localStorage,          \* guest stats and history kept on each device
    ops,                   \* number of handler invocations started
    sched,                 \* scheduling discipline of the behaviour
    ghost                  \* history of the calls, read only by the properties

vars == <<profiles, scan_history, marketplace_listings, orders, market,
          adminTab, scanner, localStorage, ops, sched, ghost>>

\* ------------------------------------------------------------ helpers ---
\* useWasteScanner.ts calculateLevel, also inlined in PendingScansTab
calculateLevel(points) == (points \div 100) + 1

Range(s) == {s[i] : i \in DOMAIN s}

\* DraftListingEditor closed
NoEditor == [open |-> FALSE, id |-> 0, pricePoints |-> 0, title |-> "",
             result |-> "", checked |-> "", pc |-> "idle", sent |-> ""]

\* A listing as the client maps it from a row (fetchListings `mapped`)
NoListing == [id |-> 0, sellerId |-> NoUser, title |-> "", pricePoints |-> 0,
              status |-> ""]

MappedListing(i) ==
    [id |-> i,
     sellerId |-> marketplace_listings[i].seller_id,
     title |-> marketplace_listings[i].title,
     pricePoints |-> marketplace_listings[i].price_points,
     status |-> marketplace_listings[i].status]

\* fetchListings: select * from marketplace_listings where status = 'active'
ActiveListings ==
    {MappedListing(i) : i \in {j \in DOMAIN marketplace_listings :
                                  marketplace_listings[j].status = "active"}}

\* loadPendingListings: select * where status = 'pending_review'
PendingListingIds == {i \in DOMAIN marketplace_listings :
                         marketplace_listings[i].status = "pending_review"}

\* fetchMyListings: own rows with status in active, draft, pending_review, sold
MyListingsOf(u) ==
    {MappedListing(i) : i \in {j \in DOMAIN marketplace_listings :
          /\ marketplace_listings[j].seller_id = u
          /\ marketplace_listings[j].status \in
                 {"active", "draft", "pending_review", "sold"}}}

OrdersFor(l) == {k \in DOMAIN orders : orders[k].listing_id = l}

\* -------------------------------------------------------- scheduling ---
MarketIdle(u) == market[u].pc = "idle"
AdminIdle(a) == adminTab[a].pc = "idle"
ScannerIdle(d) == scanner[d].pc = "idle" /\ scanner[d].again.pc = "idle"
AllIdle ==
    /\ \A u \in Users : MarketIdle(u)
    /\ \A a \in Admins : AdminIdle(a)
    /\ \A d \in Devices : ScannerIdle(d)

\* A handler may start: always under "any"; only while no other handler is
\* in flight under "serial"; only on client state that equals the stored
\* state under "fresh" (the page was loaded just before the click).  Under
\* "direct" the interleaving is free as under "any" and the hook's exported
\* handleDisposalChoice is called by any caller with any DisposalChoice, not
\* only through the buttons ScanResult renders.
MayStart(fresh) ==
    /\ ops < MaxOps
    /\ sched = "serial" => AllIdle
    /\ sched = "fresh" => fresh

\* A page load (mount effect or refresh) is an invocation like any other, but
\* has no client state to be stale.
MayLoad == MayStart(TRUE)

\* ------------------------------------------------------- ghost state ---
NoCall == [buyer |-> 0, seller |-> 0, status |-> "", price |-> 0, orders |-> 0,
           failedAt |-> "", debited |-> FALSE, credited |-> FALSE]

\* The stored state a purchase call starts from
CallStart(u, l) ==
    [buyer |-> profiles[u].total_points,
     seller |-> IF l.sellerId \in Users THEN profiles[l.sellerId].total_points ELSE 0,
     status |-> IF l.id \in DOMAIN marketplace_listings
                THEN marketplace_listings[l.id].status ELSE "",
     price |-> IF l.id \in DOMAIN marketplace_listings
               THEN marketplace_listings[l.id].price_points ELSE 0,
     orders |-> Cardinality(OrdersFor(l.id)),
     failedAt |-> "", debited |-> FALSE, credited |-> FALSE]

\* one more scan_history row stored for the item the device scanned last
RowStored(d) == [ghost EXCEPT !.rows[d] = @ + 1]

\* The ledger as it should stand: initial balance plus every amount applied
Applied(u, amount) == [ghost EXCEPT !.expected[u] = @ + amount]

\* ------------------------------------------- Marketplace page session ---
\* Marketplace.tsx fetchPoints (mount effect)
FetchPoints(u) ==
    /\ MarketIdle(u) /\ MayLoad
    /\ ops' = ops + 1
    /\ market[u].userPoints # profiles[u].total_points
    /\ market' = [market EXCEPT ![u].userPoints = profiles[u].total_points]
    /\ UNCHANGED <<profiles, scan_history, marketplace_listings, orders,
                   adminTab, sched, ghost,
                   scanner, localStorage>>

\* useMarketplace loadData (mount effect): fetchListings, fetchMyListings
LoadMarket(u) ==
    /\ MarketIdle(u) /\ MayLoad
    /\ ops' = ops + 1
    /\ \/ market[u].listings # ActiveListings
       \/ market[u].myListings # MyListingsOf(u)
    /\ market' = [market EXCEPT ![u].listings = ActiveListings,
                                ![u].myListings = MyListingsOf(u)]
    /\ UNCHANGED <<profiles, scan_history, marketplace_listings, orders,
                   adminTab, sched, ghost,
                   scanner, localStorage>>

\* The client state of a purchase equals the stored state
FreshPurchase(u, l) ==
    /\ l.id \in DOMAIN marketplace_listings
    /\ l = MappedListing(l.id)
    /\ market[u].userPoints = profiles[u].total_points

\* Marketplace.tsx handleBuy (the listing object of the rendered list becomes
\* selectedListing), then handleConfirmPurchase ->
\* purchaseListing(selectedListing, userPoints): the checks before the try block
PurchaseBegin(u, l) ==
    LET buyerPoints == market[u].userPoints IN
    /\ MarketIdle(u)
    /\ l \in market[u].listings \cup market[u].myListings
    /\ MayStart(FreshPurchase(u, l))
    /\ ops' = ops + 1
    /\ ghost' = [ghost EXCEPT !.call[u] = CallStart(u, l)]
    /\ IF l.sellerId = u
       THEN market' = [market EXCEPT ![u].selectedListing = l,
                          ![u].pc = "returned", ![u].result = "own_listing"]
       ELSE IF buyerPoints < l.pricePoints
       THEN market' = [market EXCEPT ![u].selectedListing = l,
                          ![u].pc = "returned", ![u].result = "insufficient"]
       ELSE market' = [market EXCEPT ![u].selectedListing = l,
                          ![u].pc = "order", ![u].result = ""]
    /\ UNCHANGED <<profiles, scan_history, marketplace_listings, orders,
                   adminTab, sched,
                   scanner, localStorage>>

\* catch block of purchaseListing: toast 'Purchase failed', return false
PurchaseFailed(u, step) ==
    /\ market' = [market EXCEPT ![u].pc = "returned", ![u].result = "failed"]
    /\ ghost' = [ghost EXCEPT !.call[u].failedAt = step]

\* insert into orders (status 'pending')
PurchaseInsertOrder(u) ==
    LET l == market[u].selectedListing IN
    /\ market[u].pc = "order"
    /\ \E ok \in BOOLEAN :
         IF ok
         THEN /\ orders' = Append(orders,
                     [listing_id |-> l.id, buyer_id |-> u, seller_id |-> l.sellerId,
                      price_points |-> l.pricePoints, status |-> "pending"])
              /\ market' = [market EXCEPT ![u].pc = "listing"]
              /\ UNCHANGED ghost
         ELSE /\ PurchaseFailed(u, "order")
              /\ UNCHANGED orders
    /\ UNCHANGED <<profiles, scan_history, marketplace_listings, adminTab, ops, sched,
                   scanner, localStorage>>

\* update marketplace_listings set status = 'sold' where id = listing.id
SetSold(id) ==
    IF id \in DOMAIN marketplace_listings
    THEN [marketplace_listings EXCEPT ![id].status = "sold"]
    ELSE marketplace_listings

PurchaseUpdateListing(u) ==
    LET l == market[u].selectedListing IN
    /\ market[u].pc = "listing"
    /\ \E ok \in BOOLEAN :
         IF ok
         THEN /\ marketplace_listings' = SetSold(l.id)
              /\ market' = [market EXCEPT ![u].pc = "buyer"]
              /\ UNCHANGED ghost
         ELSE /\ PurchaseFailed(u, "listing")
              /\ UNCHANGED marketplace_listings
    /\ UNCHANGED <<profiles, scan_history, orders, adminTab, ops, sched,
                   scanner, localStorage>>

\* update profiles set total_points = buyerPoints - pricePoints where id = user.id
BuyerRow(row, buyerPoints, price) == [row EXCEPT !.total_points = buyerPoints - price]

PurchaseDebitBuyer(u) ==
    LET l == market[u].selectedListing IN
    /\ market[u].pc = "buyer"
    /\ \E ok \in BOOLEAN :
         IF ok
         THEN /\ profiles' = [profiles EXCEPT
                     ![u] = BuyerRow(@, market[u].userPoints, l.pricePoints)]
              /\ market' = [market EXCEPT ![u].pc = "sellerRead"]
              /\ ghost' = [Applied(u, 0 - l.pricePoints) EXCEPT !.call[u].debited = TRUE]
         ELSE /\ PurchaseFailed(u, "buyer")
              /\ UNCHANGED profiles
    /\ UNCHANGED <<scan_history, marketplace_listings, orders, adminTab, ops, sched,
                   scanner, localStorage>>

\* select total_points from profiles where id = listing.sellerId (.single());
\* the error is not read: on failure sellerProfile is null and the credit is skipped
PurchaseReadSeller(u) ==
    LET l == market[u].selectedListing IN
    /\ market[u].pc = "sellerRead"
    /\ \E ok \in BOOLEAN :
         IF ok
         THEN /\ market' = [market EXCEPT ![u].pc = "sellerWrite",
                     ![u].sellerProfile = profiles[l.sellerId].total_points]
              /\ UNCHANGED ghost
         ELSE /\ market' = [market EXCEPT ![u].pc = "finish"]
              /\ ghost' = [ghost EXCEPT !.call[u].failedAt = "sellerRead"]
    /\ UNCHANGED <<profiles, scan_history, marketplace_listings, orders,
                   adminTab, ops, sched,
                   scanner, localStorage>>

\* update profiles set total_points = sellerProfile.total_points + pricePoints
\* where id = listing.sellerId; the result of the update is not read
SellerRow(row, read, price) == [row EXCEPT !.total_points = read + price]

PurchaseCreditSeller(u) ==
    LET l == market[u].selectedListing IN
    /\ market[u].pc = "sellerWrite"
    /\ \E ok \in BOOLEAN :
         IF ok
         THEN /\ profiles' = [profiles EXCEPT
                     ![l.sellerId] = SellerRow(@, market[u].sellerProfile, l.pricePoints)]
              /\ ghost' = [Applied(l.sellerId, l.pricePoints) EXCEPT !.call[u].credited = TRUE]
         ELSE /\ UNCHANGED profiles
              /\ ghost' = [ghost EXCEPT !.call[u].failedAt = "sellerWrite"]
    /\ market' = [market EXCEPT ![u].pc = "finish"]
    /\ UNCHANGED <<scan_history, marketplace_listings, orders, adminTab, ops, sched,
                   scanner, localStorage>>

\* buyer username, seller notification, opening message (results not read),
\* toast, fetchListings, fetchOrders, return true
PurchaseFinish(u) ==
    /\ market[u].pc = "finish"
    /\ market' = [market EXCEPT ![u].pc = "returned", ![u].result = "success",
                                ![u].listings = ActiveListings]
    /\ UNCHANGED <<profiles, scan_history, marketplace_listings, orders,
                   adminTab, ops, sched, ghost,
                   scanner, localStorage>>

\* handleConfirmPurchase after the await: on success the held balance is
\* lowered by the price and the listings are fetched again
PurchaseReturn(u) ==
    /\ market[u].pc = "returned"
    /\ market' = [market EXCEPT
          ![u].pc = "idle",
          ![u].result = "",
          ![u].sellerProfile = 0,
          ![u].userPoints = IF market[u].result = "success"
                            THEN @ - market[u].selectedListing.pricePoints ELSE @,
          ![u].listings = IF market[u].result = "success" THEN ActiveListings ELSE @]
    /\ ghost' = [ghost EXCEPT !.call[u] = NoCall]
    /\ UNCHANGED <<profiles, scan_history, marketplace_listings, orders,
                   adminTab, ops, sched,
                   scanner, localStorage>>

\* useMarketplace cancelListing, from Marketplace.tsx handleCancel:
\* update ... set status = 'cancelled' where id = id and seller_id = user.id,
\* then fetchMyListings and fetchListings
CancelListing(u, l) ==
    /\ MarketIdle(u)
    /\ l \in market[u].myListings
    /\ l.status = "active"          \* ListingDetail shows Cancel for these only
    /\ MayStart(l = MappedListing(l.id))
    /\ ops' = ops + 1
    /\ \E ok \in BOOLEAN :
         IF ok
         THEN /\ marketplace_listings' =
                    IF marketplace_listings[l.id].seller_id = u
                    THEN [marketplace_listings EXCEPT ![l.id].status = "cancelled"]
                    ELSE marketplace_listings
              /\ market' = [market EXCEPT
                    ![u].listings = {MappedListing(i) : i \in
                         {j \in DOMAIN marketplace_listings' :
                             marketplace_listings'[j].status = "active"}},
                    ![u].myListings = {x \in @ : x.id # l.id} \cup
                         {MappedListing(i) : i \in
                             {j \in DOMAIN marketplace_listings' :
                                /\ j # l.id
                                /\ marketplace_listings'[j].seller_id = u
                                /\ marketplace_listings'[j].status \in
                                     {"active", "draft", "pending_review", "sold"}}}]
         ELSE UNCHANGED <<marketplace_listings, market>>
    /\ UNCHANGED <<profiles, scan_history, orders, adminTab, sched, ghost,
                   scanner, localStorage>>

\* --------------------------------------------- admin PendingScansTab ---
\* Admin.tsx loadPendingScans: select * from scan_history where status = 'pending'
PendingScanIds == {i \in DOMAIN scan_history : scan_history[i].status = "pending"}

\* mount effect and realtime subscription of Admin.tsx
LoadPendingScans(a) ==
    /\ AdminIdle(a) /\ MayLoad
    /\ ops' = ops + 1
    /\ adminTab[a].pendingScans # PendingScanIds
    /\ adminTab' = [adminTab EXCEPT ![a].pendingScans = PendingScanIds]
    /\ UNCHANGED <<profiles, scan_history, marketplace_listings, orders,
                   market, sched, ghost,
                   scanner, localStorage>>

\* finally { setProcessing(false) }
AdminDone(a) == [adminTab EXCEPT ![a].pc = "idle", ![a].scan = 0,
                                 ![a].listing = 0, ![a].to = "",
                                 ![a].statusUpdated = FALSE,
                                 ![a].profile = [found |-> FALSE, total_points |-> 0,
                                                 items_recycled |-> 0]]

\* success path: setSelectedScan(null); onUpdate() reloads the pending list
AdminSucceeded(a, pending) == [AdminDone(a) EXCEPT ![a].pendingScans = pending]

\* a throw inside the try block: the catch block rolls back if statusUpdated
AdminThrown(a) == IF adminTab[a].statusUpdated
                  THEN [adminTab EXCEPT ![a].pc = "rollback"]
                  ELSE AdminDone(a)

\* handleApprove(scan) / handleReject(scan): if (processing) return; setProcessing(true)
ReviewBegin(a, s, first) ==
    /\ AdminIdle(a)
    /\ s \in adminTab[a].pendingScans
    /\ MayStart(scan_history[s].status = "pending")
    /\ ops' = ops + 1
    /\ adminTab' = [adminTab EXCEPT ![a].pc = first, ![a].scan = s,
                                    ![a].statusUpdated = FALSE]
    /\ UNCHANGED <<profiles, scan_history, marketplace_listings, orders,
                   market, sched, ghost,
                   scanner, localStorage>>

ApproveBegin(a, s) == ReviewBegin(a, s, "approve")

RejectBegin(a, s) == ReviewBegin(a, s, "reject")

\* update scan_history set status = <to> where id = scan.id
SetScanStatus(id, to) == [scan_history EXCEPT ![id].status = to]

\* 1. update scan status to 'approved'; an error or 0 rows throws
ApproveUpdateStatus(a) ==
    LET s == adminTab[a].scan IN
    /\ adminTab[a].pc = "approve"
    /\ \E ok \in BOOLEAN :
         IF ok
         THEN /\ scan_history' = SetScanStatus(s, "approved")
              /\ adminTab' = [adminTab EXCEPT
                     ![a].statusUpdated = TRUE,
                     ![a].pc = IF scan_history[s].disposal_choice = "trade"
                               THEN "tradeSelect" ELSE "profileRead"]
         ELSE /\ adminTab' = AdminThrown(a)
              /\ UNCHANGED scan_history
    /\ UNCHANGED <<profiles, marketplace_listings, orders, market, ops, sched, ghost,
                   scanner, localStorage>>

\* 1.5 trade: select id from marketplace_listings where scan_id = scan.id
ApproveTradeSelect(a) ==
    LET s == adminTab[a].scan
        existing == \E i \in DOMAIN marketplace_listings :
                        marketplace_listings[i].scan_id = s IN
    /\ adminTab[a].pc = "tradeSelect"
    /\ \E ok \in BOOLEAN :
         IF ok
         THEN adminTab' = [adminTab EXCEPT
                  ![a].pc = IF existing THEN "profileRead" ELSE "tradeInsert"]
         ELSE adminTab' = AdminThrown(a)
    /\ UNCHANGED <<profiles, scan_history, marketplace_listings, orders,
                   market, ops, sched, ghost,
                   scanner, localStorage>>

\* the draft listing handleApprove inserts for a trade scan
ApprovedTradeDraft(s) ==
    [seller_id |-> scan_history[s].user_id, scan_id |-> s,
     title |-> scan_history[s].item_name,
     price_points |-> scan_history[s].final_points, status |-> "draft"]

ApproveTradeInsert(a) ==
    LET s == adminTab[a].scan IN
    /\ adminTab[a].pc = "tradeInsert"
    /\ \E ok \in BOOLEAN :
         IF ok /\ Len(marketplace_listings) < MaxListings
         THEN /\ marketplace_listings' =
                     Append(marketplace_listings, ApprovedTradeDraft(s))
              /\ adminTab' = [adminTab EXCEPT ![a].pc = "profileRead"]
         ELSE /\ adminTab' = AdminThrown(a)
              /\ UNCHANGED marketplace_listings
    /\ UNCHANGED <<profiles, scan_history, orders, market, ops, sched, ghost,
                   scanner, localStorage>>

\* 2. select total_points, level, items_recycled from profiles (.maybeSingle());
\* the error is not read: on failure profile is null and the credit is skipped
ApproveReadProfile(a) ==
    LET s == adminTab[a].scan
        owner == scan_history[s].user_id IN
    /\ adminTab[a].pc = "profileRead"
    /\ \E ok \in BOOLEAN :
         IF ok
         THEN adminTab' = [adminTab EXCEPT ![a].pc = "profileWrite",
                  ![a].profile = [found |-> TRUE,
                                  total_points |-> profiles[owner].total_points,
                                  items_recycled |-> profiles[owner].items_recycled]]
         ELSE adminTab' = [adminTab EXCEPT ![a].pc = "notify"]
    /\ UNCHANGED <<profiles, scan_history, marketplace_listings, orders,
                   market, ops, sched, ghost,
                   scanner, localStorage>>

\* newPoints = profile.total_points + scan.final_points; newLevel = floor(newPoints/100)+1
ApprovedRow(row, profile, finalPoints) ==
    [row EXCEPT !.total_points = profile.total_points + finalPoints,
                !.level = calculateLevel(profile.total_points + finalPoints),
                !.items_recycled = profile.items_recycled + 1]

ApproveWriteProfile(a) ==
    LET s == adminTab[a].scan
        owner == scan_history[s].user_id
        finalPoints == scan_history[s].final_points IN
    /\ adminTab[a].pc = "profileWrite"
    /\ \E ok \in BOOLEAN :
         IF ok
         THEN /\ profiles' = [profiles EXCEPT
                     ![owner] = ApprovedRow(@, adminTab[a].profile, finalPoints)]
              /\ adminTab' = [adminTab EXCEPT ![a].pc = "notify"]
              /\ ghost' = [Applied(owner, finalPoints) EXCEPT !.credits[s] = @ + 1]
         ELSE /\ adminTab' = AdminThrown(a)
              /\ UNCHANGED <<profiles, ghost>>
    /\ UNCHANGED <<scan_history, marketplace_listings, orders, market, ops, sched,
                   scanner, localStorage>>

\* 3. insert into system_notifications; an error or 0 rows throws.
\* Then toast, setSelectedScan(null), onUpdate()
ApproveNotify(a) ==
    /\ adminTab[a].pc = "notify"
    /\ \E ok \in BOOLEAN :
         IF ok
         THEN adminTab' = AdminSucceeded(a, PendingScanIds)
         ELSE adminTab' = AdminThrown(a)
    /\ UNCHANGED <<profiles, scan_history, marketplace_listings, orders,
                   market, ops, sched, ghost,
                   scanner, localStorage>>

\* handleReject: update scan status to 'rejected'; an error or 0 rows throws
RejectUpdateStatus(a) ==
    LET s == adminTab[a].scan IN
    /\ adminTab[a].pc = "reject"
    /\ \E ok \in BOOLEAN :
         IF ok
         THEN /\ scan_history' = SetScanStatus(s, "rejected")
              /\ adminTab' = [adminTab EXCEPT ![a].statusUpdated = TRUE,
                                              ![a].pc = "rejectNotify"]
         ELSE /\ adminTab' = AdminThrown(a)
              /\ UNCHANGED scan_history
    /\ UNCHANGED <<profiles, marketplace_listings, orders, market, ops, sched, ghost,
                   scanner, localStorage>>

\* handleReject: insert into system_notifications; an error or 0 rows throws
RejectNotify(a) ==
    /\ adminTab[a].pc = "rejectNotify"
    /\ \E ok \in BOOLEAN :
         IF ok
         THEN adminTab' = AdminSucceeded(a, PendingScanIds)
         ELSE adminTab' = AdminThrown(a)
    /\ UNCHANGED <<profiles, scan_history, marketplace_listings, orders,
                   market, ops, sched, ghost,
                   scanner, localStorage>>

\* catch block of handleApprove and handleReject, statusUpdated:
\* update scan_history set status = 'pending' where id = scan.id (result not read)
ReviewRollback(a) ==
    LET s == adminTab[a].scan IN
    /\ adminTab[a].pc = "rollback"
    /\ \E ok \in BOOLEAN :
         scan_history' = IF ok THEN SetScanStatus(s, "pending") ELSE scan_history
    /\ adminTab' = AdminDone(a)
    /\ UNCHANGED <<profiles, marketplace_listings, orders, market, ops, sched, ghost,
                   scanner, localStorage>>

\* ------------------------------------ seller: edit, save and submit ---
\* the caches after fetchMyListings and fetchListings, read from `rows`
Refetched(u, rows) ==
    [market EXCEPT
       ![u].listings = {[id |-> i, sellerId |-> rows[i].seller_id,
                         title |-> rows[i].title, pricePoints |-> rows[i].price_points,
                         status |-> rows[i].status] :
                           i \in {j \in DOMAIN rows : rows[j].status = "active"}},
       ![u].myListings = {[id |-> i, sellerId |-> rows[i].seller_id,
                           title |-> rows[i].title, pricePoints |-> rows[i].price_points,
                           status |-> rows[i].status] :
                             i \in {j \in DOMAIN rows :
                                      /\ rows[j].seller_id = u
                                      /\ rows[j].status \in
                                           {"active", "draft", "pending_review", "sold"}}}]

\* the caches after refreshListings (fetchListings alone), read from `rows`
Refreshed(u, rows) ==
    [market EXCEPT ![u].listings = Refetched(u, rows)[u].listings]

\* useMarketplace updateListing, from handleFormSubmit with editingListing set
\* by the Edit button ListingDetail shows on the owner's active listing:
\* update title, price_points where id = id and seller_id = user.id
UpdateListing(u, l, title, pricePoints) ==
    /\ MarketIdle(u)
    /\ l \in market[u].myListings
    /\ l.status = "active"
    /\ MayStart(l = MappedListing(l.id))
    /\ ops' = ops + 1
    /\ \E ok \in BOOLEAN :
         IF ok
         THEN LET rows == IF marketplace_listings[l.id].seller_id = u
                          THEN [marketplace_listings EXCEPT
                                   ![l.id].title = title,
                                   ![l.id].price_points = pricePoints]
                          ELSE marketplace_listings IN
              /\ marketplace_listings' = rows
              /\ market' = Refetched(u, rows)
         ELSE UNCHANGED <<marketplace_listings, market>>
    /\ UNCHANGED <<profiles, scan_history, orders, adminTab, scanner, localStorage,
                   sched, ghost>>

\* every submission published at once
AlwaysActive(action) == "active"

\* newStatus = complianceResult.action === 'auto_approve' ? 'active' : 'pending_review'
SubmittedStatus(action) == IF action = "auto_approve" THEN "active" ELSE "pending_review"

\* DraftListingEditor handleSubmit, opened on a listing of the page's
\* draftListings, with the compliance result at hand: update title,
\* price_points and status (active on auto_approve, else pending_review)
\* where id = listing.id; then onPublish and onClose call refreshListings
SubmitDraft(u, l, title, autoApprove) ==
    /\ MarketIdle(u)
    /\ l \in market[u].myListings
    /\ l.status = "draft"
    /\ MayStart(l = MappedListing(l.id))
    /\ ops' = ops + 1
    /\ \E ok \in BOOLEAN :
         IF ok
         THEN LET rows == [marketplace_listings EXCEPT
                             ![l.id].title = title,
                             ![l.id].price_points = l.pricePoints,
                             ![l.id].status =
                                 SubmittedStatus(IF autoApprove THEN "auto_approve"
                                                 ELSE "needs_review")] IN
              /\ marketplace_listings' = rows
              /\ market' = Refreshed(u, rows)
         ELSE UNCHANGED <<marketplace_listings, market>>
    /\ UNCHANGED <<profiles, scan_history, orders, adminTab, scanner, localStorage,
                   sched, ghost>>

\* DraftListingEditor handleSaveDraft: update title, price_points where
\* id = listing.id (result not read); onClose calls refreshListings
SaveDraft(u, l, title) ==
    /\ MarketIdle(u)
    /\ l \in market[u].myListings
    /\ l.status = "draft"
    /\ MayStart(l = MappedListing(l.id))
    /\ ops' = ops + 1
    /\ \E ok \in BOOLEAN :
         LET rows == IF ok
                     THEN [marketplace_listings EXCEPT
                              ![l.id].title = title,
                              ![l.id].price_points = l.pricePoints]
                     ELSE marketplace_listings IN
         /\ marketplace_listings' = rows
         /\ market' = Refreshed(u, rows)
    /\ UNCHANGED <<profiles, scan_history, orders, adminTab, scanner, localStorage,
                   sched, ghost>>

\* --------------------------------- DraftListingEditor, step by step ---
\* what check-listing-compliance (or the local fallback) answers
ComplianceActions == {"auto_approve", "needs_review", "auto_reject"}

\* what the seller may type into the title field
TypedTitles == {"shirt", "gun"}

\* the page's draft list: setSelectedListing(draft); setShowDraftEditor(true).
\* The form is filled from the listing, complianceResult is null.
OpenEditor(u, l) ==
    /\ MarketIdle(u)
    /\ ~market[u].editor.open
    /\ l \in market[u].myListings
    /\ l.status = "draft"
    /\ market' = [market EXCEPT ![u].editor =
          [open |-> TRUE, id |-> l.id, pricePoints |-> l.pricePoints,
           title |-> l.title, result |-> "", checked |-> "", pc |-> "idle",
           sent |-> ""]]
    /\ UNCHANGED <<profiles, scan_history, marketplace_listings, orders, adminTab,
                   scanner, localStorage, ops, sched, ghost>>

\* title onChange: setTitle(value); setComplianceResult(null).  The field is
\* not disabled while a check is running.
EditTitle(u, title) ==
    /\ market[u].editor.open
    /\ title # market[u].editor.title
    /\ market' = [market EXCEPT ![u].editor.title = title,
                                ![u].editor.result = "",
                                ![u].editor.checked = ""]
    /\ UNCHANGED <<profiles, scan_history, marketplace_listings, orders, adminTab,
                   scanner, localStorage, ops, sched, ghost>>

\* handleSubmit without a compliance result: await checkCompliance(); return.
\* checkCompliance: setChecking(true), setComplianceResult(null), then the
\* request with the title as it is now
SubmitCheck(u) ==
    /\ market[u].editor.open
    /\ market[u].editor.pc = "idle"
    /\ market[u].editor.result = ""
    /\ MayStart(TRUE)
    /\ ops' = ops + 1
    /\ market' = [market EXCEPT ![u].editor.pc = "checking",
                                ![u].editor.sent = market[u].editor.title]
    /\ UNCHANGED <<profiles, scan_history, marketplace_listings, orders, adminTab,
                   scanner, localStorage, sched, ghost>>

\* the answer (or the fallback computed in catch from the same title):
\* setComplianceResult(result); finally setChecking(false)
CheckReturns(u) ==
    /\ market[u].editor.open
    /\ market[u].editor.pc = "checking"
    /\ \E action \in ComplianceActions :
         market' = [market EXCEPT ![u].editor.pc = "idle",
                                  ![u].editor.result = action,
                                  ![u].editor.checked = market[u].editor.sent]
    /\ UNCHANGED <<profiles, scan_history, marketplace_listings, orders, adminTab,
                   scanner, localStorage, ops, sched, ghost>>

\* handleSubmit with a compliance result: auto_reject returns at once;
\* otherwise update title, price_points, status where id = listing.id; an
\* error throws (the editor stays open); success calls onPublish and onClose
EditorSubmit(u) ==
    LET e == market[u].editor IN
    /\ e.open
    /\ e.pc = "idle"
    /\ e.result \in ComplianceActions \ {"auto_reject"}
    /\ MayStart(TRUE)
    /\ ops' = ops + 1
    /\ \E ok \in BOOLEAN :
         IF ok
         THEN LET rows == [marketplace_listings EXCEPT
                             ![e.id].title = e.title,
                             ![e.id].price_points = e.pricePoints,
                             ![e.id].status = SubmittedStatus(e.result)] IN
              /\ marketplace_listings' = rows
              /\ market' = [Refreshed(u, rows) EXCEPT ![u].editor = NoEditor]
         ELSE UNCHANGED <<marketplace_listings, market>>
    /\ UNCHANGED <<profiles, scan_history, orders, adminTab, scanner, localStorage,
                   sched, ghost>>

\* handleSaveDraft from the Save Draft button (disabled while checking):
\* update title, price_points where id = listing.id; onClose
EditorSaveDraft(u) ==
    LET e == market[u].editor IN
    /\ e.open
    /\ e.pc = "idle"
    /\ MayStart(TRUE)
    /\ ops' = ops + 1
    /\ \E ok \in BOOLEAN :
         LET rows == IF ok
                     THEN [marketplace_listings EXCEPT
                              ![e.id].title = e.title,
                              ![e.id].price_points = e.pricePoints]
                     ELSE marketplace_listings IN
         /\ marketplace_listings' = rows
         /\ market' = [Refreshed(u, rows) EXCEPT ![u].editor = NoEditor]
    /\ UNCHANGED <<profiles, scan_history, orders, adminTab, scanner, localStorage,
                   sched, ghost>>

\* ------------------------------------------- admin: PendingListingsTab ---
\* mount effect and realtime subscription: loadPendingListings
LoadPendingListings(a) ==
    /\ AdminIdle(a) /\ MayLoad
    /\ ops' = ops + 1
    /\ adminTab[a].pendingListings # PendingListingIds
    /\ adminTab' = [adminTab EXCEPT ![a].pendingListings = PendingListingIds]
    /\ UNCHANGED <<profiles, scan_history, marketplace_listings, orders,
                   market, sched, ghost, scanner, localStorage>>

\* handleApprove(listing) / handleReject(listing): if (processing) return;
\* setProcessing(true); `to` is the status the handler writes
ListingReviewBegin(a, l, to) ==
    /\ AdminIdle(a)
    /\ l \in adminTab[a].pendingListings
    /\ MayStart(marketplace_listings[l].status = "pending_review")
    /\ ops' = ops + 1
    /\ adminTab' = [adminTab EXCEPT ![a].pc = "listingUpdate", ![a].listing = l,
                                    ![a].to = to, ![a].statusUpdated = FALSE]
    /\ UNCHANGED <<profiles, scan_history, marketplace_listings, orders,
                   market, sched, ghost, scanner, localStorage>>

ListingApproveBegin(a, l) == ListingReviewBegin(a, l, "active")

ListingRejectBegin(a, l) == ListingReviewBegin(a, l, "cancelled")

\* update marketplace_listings set status = <to> where id = listing.id
SetListingStatus(id, to) == [marketplace_listings EXCEPT ![id].status = to]

\* the status update; an error throws before statusUpdated is set
ListingUpdateStatus(a) ==
    /\ adminTab[a].pc = "listingUpdate"
    /\ \E ok \in BOOLEAN :
         IF ok
         THEN /\ marketplace_listings' =
                    SetListingStatus(adminTab[a].listing, adminTab[a].to)
              /\ adminTab' = [adminTab EXCEPT ![a].pc = "listingNotify",
                                              ![a].statusUpdated = TRUE]
         ELSE /\ UNCHANGED marketplace_listings
              /\ adminTab' = AdminDone(a)
    /\ UNCHANGED <<profiles, scan_history, orders, market, sched, ghost, ops,
                   scanner, localStorage>>

\* the notification insert; success reloads the queue, an error goes to the
\* catch block's rollback
ListingNotify(a) ==
    /\ adminTab[a].pc = "listingNotify"
    /\ \E ok \in BOOLEAN :
         adminTab' = IF ok
                     THEN [AdminDone(a) EXCEPT ![a].pendingListings = PendingListingIds]
                     ELSE [adminTab EXCEPT ![a].pc = "listingRollback"]
    /\ UNCHANGED <<profiles, scan_history, marketplace_listings, orders, market,
                   sched, ghost, ops, scanner, localStorage>>

\* catch: update status back to 'pending_review' where id = listing.id
\* (result not read)
ListingRollback(a) ==
    /\ adminTab[a].pc = "listingRollback"
    /\ \E ok \in BOOLEAN :
         marketplace_listings' =
            IF ok THEN SetListingStatus(adminTab[a].listing, "pending_review")
            ELSE marketplace_listings
    /\ adminTab' = AdminDone(a)
    /\ UNCHANGED <<profiles, scan_history, orders, market, sched, ghost, ops,
                   scanner, localStorage>>

\* ------------------------------------------------ waste.ts categoryInfo ---
NeedsChoice(category) == category # "other"

Choices(category) ==
    CASE category = "clothing" -> {"donate", "trade", "discard"}
      [] category = "electronics" -> {"trade", "recycle", "discard"}
      [] category = "compost" -> {"recycle", "discard"}
      [] category = "recyclable" -> {"trade", "recycle", "discard"}
      [] category = "hazardous" -> {"special"}
      [] OTHER -> {}

\* pointsMultiplier, in tenths
PointsMultiplier10(category, choice) ==
    CASE category = "clothing" /\ choice = "donate" -> 20
      [] category = "clothing" /\ choice = "trade" -> 18
      [] category = "clothing" /\ choice = "discard" -> 10
      [] category = "electronics" /\ choice = "trade" -> 20
      [] category = "electronics" /\ choice = "recycle" -> 15
      [] category = "electronics" /\ choice = "discard" -> 5
      [] category = "compost" /\ choice = "recycle" -> 15
      [] category = "compost" /\ choice = "discard" -> 10
      [] category = "recyclable" /\ choice = "trade" -> 15
      [] category = "recyclable" /\ choice = "recycle" -> 15
      [] category = "recyclable" /\ choice = "discard" -> 10
      [] category = "hazardous" /\ choice = "special" -> 20
      [] OTHER -> 10     \* choiceConfig?.pointsMultiplier || 1

\* Math.floor in place of Math.round
FlooredPoints(basePoints, category, choice) ==
    (basePoints * PointsMultiplier10(category, choice)) \div 10

\* Math.round(basePoints * multiplier): halves round up
FinalPoints(basePoints, category, choice) ==
    (basePoints * PointsMultiplier10(category, choice) + 5) \div 10

\* ------------------------------------------------ useWasteScanner hook ---
defaultStats == [totalPoints |-> 0, level |-> 1, scansToday |-> 0, streak |-> 0,
                 itemsRecycled |-> 0, pendingPoints |-> 0]

NoItem == [name |-> "", category |-> "", points |-> 0, basePoints |-> 0,
           finalPoints |-> 0, status |-> "", disposalChoice |-> "", isRetry |-> FALSE]

\* nothing saved by a guest on the device
NoGuestData == [hasStats |-> FALSE, stats |-> defaultStats,
                hasHistory |-> FALSE, history |-> <<>>]

\* no second handleDisposalChoice call is running
NoAgain == [pc |-> "idle", item |-> NoItem, scanRecord |-> 0, held |-> defaultStats]

\* what classifyWasteImageBinary returns: an identified item, a detected human
\* (category other, 0 points) or the retry signal
ClassifyResults ==
    {[name |-> "shirt", category |-> "clothing", points |-> 10, isRetry |-> FALSE],
     [name |-> "wrapper", category |-> "other", points |-> 8, isRetry |-> FALSE],
     [name |-> "battery", category |-> "hazardous", points |-> 15, isRetry |-> FALSE],
     [name |-> "Human Detected", category |-> "other", points |-> 0, isRetry |-> FALSE],
     [name |-> "Unidentified", category |-> "other", points |-> 0, isRetry |-> TRUE]}

\* scanWithImage newItem
NewItem(result) ==
    [name |-> result.name, category |-> result.category, points |-> result.points,
     basePoints |-> result.points, finalPoints |-> result.points,
     status |-> IF result.category = "other" THEN "approved" ELSE "pending",
     disposalChoice |-> IF NeedsChoice(result.category) THEN "" ELSE "discard",
     isRetry |-> result.isRetry]

ScansOf(u) == {i \in DOMAIN scan_history : scan_history[i].user_id = u}

RECURSIVE SumFinal(_)
SumFinal(ids) ==
    IF ids = {} THEN 0
    ELSE LET i == CHOOSE x \in ids : TRUE
         IN scan_history[i].final_points + SumFinal(ids \ {i})

\* loadAuthenticatedData: stats from the profile row, pendingPoints from the
\* pending rows of the user's history (all scans count as scanned today)
AuthenticatedStats(u) ==
    [totalPoints |-> profiles[u].total_points,
     level |-> profiles[u].level,
     scansToday |-> Cardinality(ScansOf(u)),
     streak |-> profiles[u].streak,
     itemsRecycled |-> profiles[u].items_recycled,
     pendingPoints |-> SumFinal({i \in ScansOf(u) : scan_history[i].status = "pending"})]

\* loadGuestData: { ...defaultStats, ...parsed }; no saved stats leaves the state
GuestStats(d) == IF localStorage[d].hasStats THEN localStorage[d].stats
                 ELSE scanner[d].stats

GuestHistory(d) == IF localStorage[d].hasHistory THEN localStorage[d].history
                   ELSE scanner[d].scanHistory

\* mount effect of the hook: loadGuestData or loadAuthenticatedData.  For a
\* signed-in user scanHistory is display state re-read from scan_history and
\* is not kept here.
LoadScanner(d) ==
    LET u == scanner[d].user
        loaded == IF scanner[d].isGuest
                  THEN [scanner EXCEPT ![d].stats = GuestStats(d),
                                       ![d].scanHistory = GuestHistory(d)]
                  ELSE [scanner EXCEPT ![d].stats = AuthenticatedStats(u)] IN
    /\ ScannerIdle(d) /\ MayLoad
    /\ ops' = ops + 1
    /\ scanner[d].isGuest \/ u \in Users
    /\ loaded # scanner
    /\ scanner' = loaded
    /\ UNCHANGED <<profiles, scan_history, marketplace_listings, orders, market,
                   adminTab, localStorage, sched, ghost>>

\* the hook's stats equal the stored profile
FreshScanner(d) ==
    LET u == scanner[d].user IN
    IF scanner[d].isGuest THEN TRUE
    ELSE /\ scanner[d].stats.totalPoints = profiles[u].total_points
         /\ scanner[d].stats.level = profiles[u].level
       /\ scanner[d].stats.itemsRecycled = profiles[u].items_recycled

\* saveGuestData(newStats, newHistory)
SaveGuestData(d, newStats, newHistory) ==
    [localStorage EXCEPT ![d] = [hasStats |-> TRUE, stats |-> newStats,
                                 hasHistory |-> TRUE, history |-> newHistory]]

\* a new row of scan_history as the hook inserts it
ScanRow(u, item, status, choice, finalPoints) ==
    [user_id |-> u, item_name |-> item.name, category |-> item.category,
     points |-> item.points, base_points |-> item.basePoints,
     final_points |-> finalPoints, status |-> status, disposal_choice |-> choice]

\* scanWithImage: setIsScanning(true), then await classifyWasteImage
ScanBegin(d) ==
    /\ ScannerIdle(d)
    /\ scanner[d].isGuest \/ scanner[d].user \in Users
    /\ MayStart(FreshScanner(d))
    /\ ops' = ops + 1
    /\ scanner' = [scanner EXCEPT ![d].pc = "classify"]
    /\ UNCHANGED <<profiles, scan_history, marketplace_listings, orders, market,
                   adminTab, localStorage, sched, ghost>>

\* a scan counted without its points or its item
UncreditedStats(stats, points) == [stats EXCEPT !.scansToday = stats.scansToday + 1]

\* a retry result saved like any other result of its category
ShownByCategory(result) == NeedsChoice(result.category)

\* if (result.isRetry) the result is only shown; a category that needs a
\* choice waits in lastScannedItem: neither is saved by scanWithImage
ShownOnly(result) == result.isRetry \/ NeedsChoice(result.category)

\* the outcome of the classification a device asked for last
Classified(d, outcome) ==
    [ghost EXCEPT !.rows[d] = 0, !.runs[d] = 0, !.outcome[d] = outcome]

\* stats after an approved 'other' scan
OtherStats(stats, points) ==
    [stats EXCEPT !.totalPoints = stats.totalPoints + points,
                  !.level = calculateLevel(stats.totalPoints + points),
                  !.scansToday = stats.scansToday + 1,
                  !.itemsRecycled = stats.itemsRecycled + 1]

\* the classification returned (or threw: finally setIsScanning(false)).
\* Retry: only lastScannedItem is set.  A category that needs a choice: the
\* item waits in lastScannedItem.  Category other: approved at once; a guest
\* saves it locally, a signed-in user goes on to the two store writes.
ScanClassify(d) ==
    /\ scanner[d].pc = "classify"
    /\ \/ /\ scanner' = [scanner EXCEPT ![d].pc = "idle"]
          /\ UNCHANGED localStorage
          /\ ghost' = Classified(d, "failed")
       \/ \E result \in ClassifyResults :
            LET item == NewItem(result)
                newStats == OtherStats(scanner[d].stats, result.points)
                newHistory == <<item>> \o scanner[d].scanHistory IN
            /\ ghost' = Classified(d, IF result.isRetry THEN "retry"
                                      ELSE IF NeedsChoice(result.category)
                                      THEN "choice" ELSE "other")
            /\ IF ShownOnly(result)
               THEN /\ scanner' = [scanner EXCEPT ![d].pc = "idle",
                                                  ![d].lastScannedItem = item]
                    /\ UNCHANGED localStorage
               ELSE IF scanner[d].isGuest
               THEN /\ localStorage' = SaveGuestData(d, newStats, newHistory)
                    /\ scanner' = [scanner EXCEPT ![d].pc = "idle",
                                                  ![d].lastScannedItem = item,
                                                  ![d].stats = newStats,
                                                  ![d].scanHistory = newHistory]
               ELSE /\ scanner' = [scanner EXCEPT ![d].pc = "scanInsert",
                                                  ![d].item = item]
                    /\ UNCHANGED localStorage
    /\ UNCHANGED <<profiles, scan_history, marketplace_listings, orders, market,
                   adminTab, ops, sched>>

\* insert into scan_history (status 'approved'); the result is not read
ScanInsert(d) ==
    LET item == scanner[d].item
        row == ScanRow(scanner[d].user, item, "approved", "", item.points) IN
    /\ scanner[d].pc = "scanInsert"
    /\ \E ok \in BOOLEAN :
         IF ok /\ Len(scan_history) < MaxScans
         THEN /\ scan_history' = Append(scan_history, row)
              /\ scanner' = [scanner EXCEPT ![d].pc = "scanProfile",
                                            ![d].scanRecord = Len(scan_history) + 1]
              /\ ghost' = RowStored(d)
         ELSE /\ scanner' = [scanner EXCEPT ![d].pc = "scanProfile"]
              /\ UNCHANGED <<scan_history, ghost>>
    /\ UNCHANGED <<profiles, marketplace_listings, orders, market, adminTab,
                   localStorage, ops, sched>>

\* update profiles set total_points, level, items_recycled from the hook's stats
StatsRow(row, newStats) ==
    [row EXCEPT !.total_points = newStats.totalPoints,
                !.level = newStats.level,
                !.items_recycled = newStats.itemsRecycled]

CreditedScan(g, s) == IF s = 0 THEN g ELSE [g EXCEPT !.credits[s] = @ + 1]

\* the hook's state after a handler: setLastScannedItem, setStats
ScannerSettled(d, item, newStats) ==
    [scanner EXCEPT ![d].pc = "idle", ![d].lastScannedItem = item,
                    ![d].stats = newStats, ![d].item = NoItem,
                    ![d].scanRecord = 0, ![d].held = defaultStats]

\* update profiles (result not read), then setScanHistory, setStats, checkLevelUp
ScanProfile(d) ==
    LET u == scanner[d].user
        item == scanner[d].item
        newStats == OtherStats(scanner[d].stats, item.points) IN
    /\ scanner[d].pc = "scanProfile"
    /\ \E ok \in BOOLEAN :
         IF ok
         THEN /\ profiles' = [profiles EXCEPT ![u] = StatsRow(@, newStats)]
              /\ ghost' = CreditedScan(Applied(u, item.points), scanner[d].scanRecord)
         ELSE UNCHANGED <<profiles, ghost>>
    /\ scanner' = ScannerSettled(d, item, newStats)
    /\ UNCHANGED <<scan_history, marketplace_listings, orders, market, adminTab,
                   localStorage, ops, sched>>

\* every choice credited at once, as discard is
EagerStats(stats, choice, finalPoints) == OtherStats(stats, finalPoints)

\* handleDisposalChoice: newStats for discard and for the pending choices
ChoiceStats(stats, choice, finalPoints) ==
    IF choice = "discard"
    THEN [stats EXCEPT !.totalPoints = stats.totalPoints + finalPoints,
                       !.level = calculateLevel(stats.totalPoints + finalPoints),
                       !.scansToday = stats.scansToday + 1,
                       !.itemsRecycled = stats.itemsRecycled + 1]
    ELSE [stats EXCEPT !.scansToday = stats.scansToday + 1,
                       !.pendingPoints = stats.pendingPoints + finalPoints]

\* handleDisposalChoice updatedItem
UpdatedItem(item, choice) ==
    [item EXCEPT !.disposalChoice = choice,
                 !.finalPoints = FinalPoints(item.basePoints, item.category, choice),
                 !.status = IF choice = "discard" THEN "approved" ELSE "pending"]

\* ScanResult renders a button for each entry of category.choices while
\* needsChoice = category.needsChoice && !item.disposalChoice
ChoiceOffered(item, choice) ==
    /\ ~item.isRetry
    /\ NeedsChoice(item.category) /\ item.disposalChoice = ""
    /\ choice \in Choices(item.category)

\* handleDisposalChoice(choice): its only guard is !lastScannedItem.  A guest
\* saves locally and is done; a signed-in user goes on to the store writes.
ChoiceBegin(d, choice) ==
    LET last == scanner[d].lastScannedItem
        item == UpdatedItem(last, choice)
        newStats == ChoiceStats(scanner[d].stats, choice, item.finalPoints)
        newHistory == <<item>> \o scanner[d].scanHistory IN
    /\ ScannerIdle(d)
    /\ last # NoItem
    /\ sched = "direct" \/ ChoiceOffered(last, choice)
    /\ MayStart(FreshScanner(d))
    /\ ops' = ops + 1
    /\ IF scanner[d].isGuest
       THEN /\ localStorage' = SaveGuestData(d, newStats, newHistory)
            /\ scanner' = [scanner EXCEPT ![d].lastScannedItem = item,
                                          ![d].stats = newStats,
                                          ![d].scanHistory = newHistory]
       ELSE /\ scanner[d].user \in Users
            /\ scanner' = [scanner EXCEPT ![d].pc = "choiceInsert", ![d].item = item,
                                          ![d].held = scanner[d].stats]
            /\ UNCHANGED localStorage
    /\ UNCHANGED <<profiles, scan_history, marketplace_listings, orders, market,
                   adminTab, sched, ghost>>

\* where handleDisposalChoice goes after the scan_history insert
AfterChoiceInsert(d, item, scanRecord) ==
    LET newStats == ChoiceStats(scanner[d].held, item.disposalChoice, item.finalPoints) IN
    IF item.disposalChoice = "discard"
    THEN [scanner EXCEPT ![d].pc = "choiceProfile", ![d].scanRecord = scanRecord]
    ELSE IF item.disposalChoice = "trade" /\ scanRecord # 0
    THEN [scanner EXCEPT ![d].pc = "choiceListing", ![d].scanRecord = scanRecord]
    ELSE ScannerSettled(d, item, newStats)

\* insert into scan_history ... select('id').single(): scanRecord is null on error
ChoiceInsert(d) ==
    LET item == scanner[d].item
        row == ScanRow(scanner[d].user, item, item.status, item.disposalChoice,
                       item.finalPoints) IN
    /\ scanner[d].pc = "choiceInsert"
    /\ \E ok \in BOOLEAN :
         IF ok /\ Len(scan_history) < MaxScans
         THEN /\ scan_history' = Append(scan_history, row)
              /\ scanner' = AfterChoiceInsert(d, item, Len(scan_history) + 1)
              /\ ghost' = RowStored(d)
         ELSE /\ scanner' = AfterChoiceInsert(d, item, 0)
              /\ UNCHANGED <<scan_history, ghost>>
    /\ UNCHANGED <<profiles, marketplace_listings, orders, market, adminTab,
                   localStorage, ops, sched>>

\* discard: update profiles from newStats (result not read)
ChoiceProfile(d) ==
    LET u == scanner[d].user
        item == scanner[d].item
        newStats == ChoiceStats(scanner[d].held, item.disposalChoice, item.finalPoints) IN
    /\ scanner[d].pc = "choiceProfile"
    /\ \E ok \in BOOLEAN :
         IF ok
         THEN /\ profiles' = [profiles EXCEPT ![u] = StatsRow(@, newStats)]
              /\ ghost' = CreditedScan(Applied(u, item.finalPoints), scanner[d].scanRecord)
         ELSE UNCHANGED <<profiles, ghost>>
    /\ scanner' = ScannerSettled(d, item, newStats)
    /\ UNCHANGED <<scan_history, marketplace_listings, orders, market, adminTab,
                   localStorage, ops, sched>>

\* the draft listing handleDisposalChoice inserts for a trade choice
ChoiceTradeDraft(u, item, scanRecord) ==
    [seller_id |-> u, scan_id |-> scanRecord, title |-> item.name,
     price_points |-> item.finalPoints * 2, status |-> "draft"]

\* trade: insert into marketplace_listings (result not read)
ChoiceListing(d) ==
    LET u == scanner[d].user
        item == scanner[d].item
        newStats == ChoiceStats(scanner[d].held, item.disposalChoice, item.finalPoints) IN
    /\ scanner[d].pc = "choiceListing"
    /\ \E ok \in BOOLEAN :
         marketplace_listings' =
             IF ok /\ Len(marketplace_listings) < MaxListings
             THEN Append(marketplace_listings,
                         ChoiceTradeDraft(u, item, scanner[d].scanRecord))
             ELSE marketplace_listings
    /\ scanner' = ScannerSettled(d, item, newStats)
    /\ UNCHANGED <<profiles, scan_history, orders, market, adminTab,
                   localStorage, ops, sched, ghost>>

\* A second handleDisposalChoice call on the same lastScannedItem while the
\* first call of a signed-in user awaits a store write: ScanResult still shows
\* the buttons, because setLastScannedItem runs only after the awaits.  The
\* call closes over the same lastScannedItem and stats as the first.
ChoiceAgain(d, choice) ==
    LET last == scanner[d].lastScannedItem IN
    /\ scanner[d].pc \in {"choiceInsert", "choiceProfile", "choiceListing"}
    /\ scanner[d].again.pc = "idle"
    /\ sched = "direct" \/ ChoiceOffered(last, choice)
    /\ MayStart(FreshScanner(d))
    /\ ops' = ops + 1
    /\ scanner' = [scanner EXCEPT ![d].again =
          [pc |-> "choiceInsert", item |-> UpdatedItem(last, choice),
           scanRecord |-> 0, held |-> scanner[d].stats]]
    /\ UNCHANGED <<profiles, scan_history, marketplace_listings, orders, market,
                   adminTab, localStorage, sched, ghost>>

\* the end of the second call: setLastScannedItem(updatedItem), setStats(newStats)
AgainSettled(d) ==
    LET item == scanner[d].again.item IN
    [scanner EXCEPT ![d].again = NoAgain, ![d].lastScannedItem = item,
        ![d].stats = ChoiceStats(scanner[d].again.held, item.disposalChoice,
                                 item.finalPoints)]

\* the second call's insert into scan_history
AgainInsert(d) ==
    LET item == scanner[d].again.item
        row == ScanRow(scanner[d].user, item, item.status, item.disposalChoice,
                       item.finalPoints) IN
    /\ scanner[d].again.pc = "choiceInsert"
    /\ \E ok \in BOOLEAN :
         LET stored == ok /\ Len(scan_history) < MaxScans
             scanRecord == IF stored THEN Len(scan_history) + 1 ELSE 0 IN
         /\ scan_history' = IF stored THEN Append(scan_history, row) ELSE scan_history
         /\ ghost' = IF stored THEN RowStored(d) ELSE ghost
         /\ scanner' =
              IF item.disposalChoice = "discard"
              THEN [scanner EXCEPT ![d].again.pc = "choiceProfile",
                                   ![d].again.scanRecord = scanRecord]
              ELSE IF item.disposalChoice = "trade" /\ scanRecord # 0
              THEN [scanner EXCEPT ![d].again.pc = "choiceListing",
                                   ![d].again.scanRecord = scanRecord]
              ELSE AgainSettled(d)
    /\ UNCHANGED <<profiles, marketplace_listings, orders, market, adminTab,
                   localStorage, ops, sched>>

\* the second call's profile update (discard) or draft listing insert (trade)
AgainWrite(d) ==
    LET u == scanner[d].user
        item == scanner[d].again.item
        newStats == ChoiceStats(scanner[d].again.held, item.disposalChoice,
                                item.finalPoints) IN
    /\ scanner[d].again.pc \in {"choiceProfile", "choiceListing"}
    /\ \E ok \in BOOLEAN :
         IF scanner[d].again.pc = "choiceProfile"
         THEN /\ profiles' = IF ok THEN [profiles EXCEPT ![u] = StatsRow(@, newStats)]
                             ELSE profiles
              /\ ghost' = IF ok THEN CreditedScan(Applied(u, item.finalPoints),
                                                  scanner[d].again.scanRecord)
                          ELSE ghost
              /\ UNCHANGED marketplace_listings
         ELSE /\ marketplace_listings' =
                    IF ok /\ Len(marketplace_listings) < MaxListings
                    THEN Append(marketplace_listings,
                                ChoiceTradeDraft(u, item, scanner[d].again.scanRecord))
                    ELSE marketplace_listings
              /\ UNCHANGED <<profiles, ghost>>
    /\ scanner' = AgainSettled(d)
    /\ UNCHANGED <<scan_history, orders, market, adminTab, localStorage, ops, sched>>

\* -------------------------------------------- Auth page: guest migration ---
\* Auth handleSubmit on a device in guest mode: signIn / signUp as userId,
\* then migrateGuestData(userId) reads the two localStorage entries
MigrateBegin(d, userId) ==
    /\ ScannerIdle(d)
    /\ scanner[d].isGuest
    /\ MayStart(TRUE)
    /\ ops' = ops + 1
    /\ scanner' = [scanner EXCEPT ![d].pc = "migrateStats", ![d].target = userId]
    /\ UNCHANGED <<profiles, scan_history, marketplace_listings, orders, market,
                   adminTab, localStorage, sched, ghost>>

\* stats.totalPoints || 0, stats.level || 1, stats.streak || 0, stats.itemsRecycled || 0
MigratedRow(row, stats) ==
    [row EXCEPT !.total_points = stats.totalPoints,
                !.level = IF stats.level = 0 THEN 1 ELSE stats.level,
                !.streak = stats.streak,
                !.items_recycled = stats.itemsRecycled]

\* if (savedStats) update profiles ... where id = userId (result not read)
MigrateStats(d) ==
    LET userId == scanner[d].target IN
    /\ scanner[d].pc = "migrateStats"
    /\ \E ok \in BOOLEAN :
         IF ok /\ localStorage[d].hasStats
         THEN /\ profiles' = [profiles EXCEPT
                     ![userId] = MigratedRow(@, localStorage[d].stats)]
              /\ ghost' = [ghost EXCEPT
                     !.expected[userId] = localStorage[d].stats.totalPoints]
         ELSE UNCHANGED <<profiles, ghost>>
    /\ scanner' = [scanner EXCEPT ![d].pc = "migrateHistory"]
    /\ UNCHANGED <<scan_history, marketplace_listings, orders, market, adminTab,
                   localStorage, ops, sched>>

\* historyToInsert: user_id, item_name, category, points, scanned_at; the other
\* columns are left to the table (unset)
MigratedScanRow(userId, item) ==
    [user_id |-> userId, item_name |-> item.name, category |-> item.category,
     points |-> item.points, base_points |-> 0, final_points |-> 0,
     status |-> "unset", disposal_choice |-> ""]

RECURSIVE MigratedRows(_, _)
MigratedRows(userId, history) ==
    IF history = <<>> THEN <<>>
    ELSE <<MigratedScanRow(userId, Head(history))>> \o
         MigratedRows(userId, Tail(history))

\* the hook as it mounts for the given session
MountedScanner(d, userId, isGuest) ==
    [scanner EXCEPT
       ![d] = [user |-> userId, isGuest |-> isGuest,
               stats |-> IF isGuest THEN localStorage[d].stats ELSE defaultStats,
               lastScannedItem |-> NoItem,
               scanHistory |-> IF isGuest THEN localStorage[d].history ELSE <<>>,
               pc |-> "idle", item |-> NoItem, scanRecord |-> 0, target |-> NoUser,
               held |-> defaultStats, again |-> NoAgain]]

\* the two removeItem calls left out
KeptGuestData(d) == localStorage

\* localStorage.removeItem of the guest stats and the guest history
ClearedGuestData(d) == [localStorage EXCEPT ![d] = NoGuestData]

\* if (savedHistory && length > 0) insert into scan_history (result not read);
\* then the two localStorage entries are removed and the device is signed in:
\* the hook mounts again with its initial state
MigrateHistory(d) ==
    LET userId == scanner[d].target
        rows == IF localStorage[d].hasHistory
                THEN MigratedRows(userId, localStorage[d].history) ELSE <<>> IN
    /\ scanner[d].pc = "migrateHistory"
    /\ \E ok \in BOOLEAN :
         scan_history' = IF ok /\ Len(scan_history) + Len(rows) <= MaxScans
                         THEN scan_history \o rows ELSE scan_history
    /\ localStorage' = ClearedGuestData(d)
    /\ scanner' = MountedScanner(d, userId, FALSE)
    /\ ghost' = [ghost EXCEPT !.runs[d] = @ + 1]
    /\ UNCHANGED <<profiles, marketplace_listings, orders, market, adminTab,
                   ops, sched>>

\* The page is closed or reloaded while migrateGuestData awaits a store call:
\* the request in flight may or may not have been applied, nothing after it
\* runs, and localStorage keeps the guest data.  The session signIn created
\* persists, so the device comes back signed in.
MigrateInterrupt(d) ==
    LET userId == scanner[d].target
        rows == IF localStorage[d].hasHistory
                THEN MigratedRows(userId, localStorage[d].history) ELSE <<>> IN
    /\ scanner[d].pc \in {"migrateStats", "migrateHistory"}
    /\ \E ok \in BOOLEAN :
         IF scanner[d].pc = "migrateStats"
         THEN /\ IF ok /\ localStorage[d].hasStats
                 THEN /\ profiles' = [profiles EXCEPT
                             ![userId] = MigratedRow(@, localStorage[d].stats)]
                      /\ ghost' = [ghost EXCEPT
                             !.expected[userId] = localStorage[d].stats.totalPoints]
                 ELSE UNCHANGED <<profiles, ghost>>
              /\ UNCHANGED scan_history
         ELSE /\ scan_history' = IF ok /\ Len(scan_history) + Len(rows) <= MaxScans
                                 THEN scan_history \o rows ELSE scan_history
              /\ UNCHANGED <<profiles, ghost>>
    /\ scanner' = MountedScanner(d, userId, FALSE)
    /\ UNCHANGED <<marketplace_listings, orders, market, adminTab, localStorage,
                   ops, sched>>

\* signOut, then the Auth page's Continue as Guest (enterAsGuest): the hook
\* mounts in guest mode and loadGuestData reads localStorage
EnterAsGuest(d) ==
    /\ ScannerIdle(d)
    /\ ~scanner[d].isGuest
    /\ MayStart(TRUE)
    /\ ops' = ops + 1
    /\ scanner' = MountedScanner(d, NoUser, TRUE)
    /\ UNCHANGED <<profiles, scan_history, marketplace_listings, orders, market,
                   adminTab, localStorage, sched, ghost>>

\* useMarketplace createListing: insert with status 'active' (no review), then
\* fetchMyListings and fetchListings
NewListing(u, title, pricePoints) ==
    [seller_id |-> u, scan_id |-> 0, title |-> title,
     price_points |-> pricePoints, status |-> "active"]

CreateListing(u, title, pricePoints) ==
    /\ MarketIdle(u)
    /\ MayStart(TRUE)
    /\ ops' = ops + 1
    /\ \E ok \in BOOLEAN :
         IF ok /\ Len(marketplace_listings) < MaxListings
         THEN /\ marketplace_listings' =
                    Append(marketplace_listings, NewListing(u, title, pricePoints))
              /\ market' = [market EXCEPT
                    ![u].listings = ActiveListings \cup
                        {[id |-> Len(marketplace_listings) + 1, sellerId |-> u,
                          title |-> title, pricePoints |-> pricePoints,
                          status |-> "active"]},
                    ![u].myListings = MyListingsOf(u) \cup
                        {[id |-> Len(marketplace_listings) + 1, sellerId |-> u,
                          title |-> title, pricePoints |-> pricePoints,
                          status |-> "active"]}]
         ELSE UNCHANGED <<marketplace_listings, market>>
    /\ UNCHANGED <<profiles, scan_history, orders, adminTab, scanner,
                   localStorage, sched, ghost>>

\* ------------------------------------------------------ initial state ---
\* Three accounts with earlier activity, one active listing of ann's, one
\* pending trade scan of bob's whose draft listing was not stored.  Every
\* page has mounted and loaded: the
\* Marketplace pages hold the stored balances and listings, the admin tabs
\* the pending queue, the hook of device d1 (signed in as bob) bob's stats.
\* Device d2 is in guest mode with nothing saved.
InitProfiles ==
    [u \in Users |->
        [total_points |-> CASE u = "ann" -> 20 [] u = "bob" -> 150 [] OTHER -> 120,
         level |-> CASE u = "ann" -> 1 [] OTHER -> 2,
         streak |-> 0,
         items_recycled |-> CASE u = "ann" -> 2 [] OTHER -> 9]]

InitStoreWith(listings) ==
    /\ profiles = InitProfiles
    /\ scan_history = <<[user_id |-> "bob", item_name |-> "shirt",
                         category |-> "clothing", points |-> 10, base_points |-> 10,
                         final_points |-> 18, status |-> "pending",
                         disposal_choice |-> "trade"]>>
    /\ marketplace_listings = listings
    /\ orders = <<>>

InitStore == InitStoreWith(<<NewListing(Seller, "lamp", 100)>>)

\* what a guest's earlier visit left in localStorage: one scan of category
\* other, or one item with its disposal choice made
GuestVisits ==
    {[hasStats |-> TRUE, stats |-> OtherStats(defaultStats, 8), hasHistory |-> TRUE,
      history |-> <<NewItem([name |-> "wrapper", category |-> "other",
                             points |-> 8, isRetry |-> FALSE])>>]}
    \cup
    {[hasStats |-> TRUE,
      stats |-> ChoiceStats(defaultStats, choice, FinalPoints(10, "clothing", choice)),
      hasHistory |-> TRUE,
      history |-> <<UpdatedItem(NewItem([name |-> "shirt", category |-> "clothing",
                                         points |-> 10, isRetry |-> FALSE]), choice)>>] :
        choice \in {"donate", "discard"}}

\* the pages as first rendered, with `last` as each scanner's lastScannedItem
\* and `saved` as the guest device's localStorage
InitPagesWith(last, saved) ==
    /\ market = [u \in Users |->
          [userPoints |-> profiles[u].total_points, listings |-> ActiveListings,
           myListings |-> MyListingsOf(u), selectedListing |-> NoListing, pc |-> "idle", result |-> "",
           sellerProfile |-> 0, editor |-> NoEditor]]
    /\ adminTab = [a \in Admins |->
          [pendingScans |-> PendingScanIds, pendingListings |-> PendingListingIds,
           pc |-> "idle", scan |-> 0, listing |-> 0, to |-> "", statusUpdated |-> FALSE,
           profile |-> [found |-> FALSE, total_points |-> 0, items_recycled |-> 0]]]
    /\ scanner = [d \in Devices |->
          [user |-> IF d = "d1" THEN "bob" ELSE NoUser, isGuest |-> d # "d1",
           stats |-> IF d = "d1" THEN AuthenticatedStats("bob") ELSE saved.stats,
           lastScannedItem |-> last,
           scanHistory |-> IF d = "d1" THEN <<>> ELSE saved.history,
           pc |-> "idle", item |-> NoItem, scanRecord |-> 0, target |-> NoUser,
           held |-> defaultStats, again |-> NoAgain]]
    /\ localStorage = [d \in Devices |-> IF d = "d1" THEN NoGuestData ELSE saved]
    /\ ops = 0
    /\ ghost = [call |-> [u \in Users |-> NoCall],
                expected |-> [u \in Users |-> InitProfiles[u].total_points],
                credits |-> [s \in 1..(MaxScans + 1) |-> 0],
                rows |-> [d \in Devices |-> 0],
                runs |-> [d \in Devices |-> 0],
                outcome |-> [d \in Devices |-> ""]]

InitPages(last) == InitPagesWith(last, NoGuestData)

InitClients == InitPages(NoItem)

Init == InitStore /\ InitClients /\ sched = "any"

InitSerial == InitStore /\ InitClients /\ sched = "serial"

InitFresh == InitStore /\ InitClients /\ sched = "fresh"

InitDirect == InitStore /\ InitClients /\ sched = "direct"

\* Both scanners show the same freshly classified item awaiting its disposal
\* choice: any category that needs a choice, any basePoints classify-waste returns.
InitPoints ==
    /\ InitStore
    /\ \E category \in {"clothing", "electronics", "compost", "recyclable", "hazardous"} :
       \E points \in MinPoints..MaxPoints :
          InitPages(NewItem([name |-> "item", category |-> category,
                             points |-> points, isRetry |-> FALSE]))
    /\ sched = "any"

\* every handler started from an idle page
Handlers ==
    \/ \E u \in Users :
         \/ FetchPoints(u)
         \/ LoadMarket(u)
         \/ \E l \in market[u].listings \cup market[u].myListings : PurchaseBegin(u, l)
         \/ PurchaseInsertOrder(u)
         \/ PurchaseUpdateListing(u)
         \/ PurchaseDebitBuyer(u)
         \/ PurchaseReadSeller(u)
         \/ PurchaseCreditSeller(u)
         \/ PurchaseFinish(u)
         \/ PurchaseReturn(u)
         \/ \E l \in market[u].myListings : CancelListing(u, l)
         \/ CreateListing(u, "mug", 50)
    \/ \E a \in Admins :
         \/ LoadPendingScans(a)
         \/ \E s \in adminTab[a].pendingScans : ApproveBegin(a, s) \/ RejectBegin(a, s)
         \/ ApproveUpdateStatus(a)
         \/ ApproveTradeSelect(a)
         \/ ApproveTradeInsert(a)
         \/ ApproveReadProfile(a)
         \/ ApproveWriteProfile(a)
         \/ ApproveNotify(a)
         \/ RejectUpdateStatus(a)
         \/ RejectNotify(a)
         \/ ReviewRollback(a)
    \/ \E d \in Devices :
         \/ LoadScanner(d)
         \/ ScanBegin(d)
         \/ ScanClassify(d)
         \/ ScanInsert(d)
         \/ ScanProfile(d)
         \/ \E choice \in {"donate", "trade", "recycle", "discard", "special"} :
               ChoiceBegin(d, choice)
         \/ ChoiceInsert(d)
         \/ ChoiceProfile(d)
         \/ ChoiceListing(d)
         \/ \E userId \in Users : MigrateBegin(d, userId)
         \/ MigrateStats(d)
         \/ MigrateHistory(d)
         \/ MigrateInterrupt(d)
         \/ EnterAsGuest(d)

\* a handler called again on a page whose earlier call still awaits the store
Reentry ==
    \E d \in Devices :
       \/ \E choice \in {"donate", "trade", "recycle", "discard", "special"} :
             ChoiceAgain(d, choice)
       \/ AgainInsert(d)
       \/ AgainWrite(d)

Next == Handlers \/ Reentry

\* handleDisposalChoice alone, on the item each scanner shows
NextPoints ==
    \E d \in Devices :
       \/ \E choice \in {"donate", "trade", "recycle", "discard", "special"} :
             ChoiceBegin(d, choice)
       \/ ChoiceInsert(d)
       \/ ChoiceProfile(d)
       \/ ChoiceListing(d)

\* every handler of every session, in any interleaving of their store calls
Spec == Init /\ [][Next]_vars

\* the same handlers, one at a time
SpecSerial == InitSerial /\ [][Handlers]_vars

\* any interleaving of handlers that each start on freshly loaded client state
SpecFresh == InitFresh /\ [][Next]_vars

\* any interleaving, with the hook's handlers called directly
SpecDirect == InitDirect /\ [][Next]_vars

\* the guest device comes back with what an earlier visit saved
InitMigrate ==
    /\ InitStore
    /\ \E saved \in GuestVisits : InitPagesWith(NoItem, saved)
    /\ sched = "any"

\* signing in on a guest device, leaving, and coming back as a guest
NextMigrate ==
    \E d \in Devices :
       \/ \E userId \in Users : MigrateBegin(d, userId)
       \/ MigrateStats(d)
       \/ MigrateHistory(d)
       \/ MigrateInterrupt(d)
       \/ EnterAsGuest(d)

SpecMigrate == InitMigrate /\ [][NextMigrate]_vars

\* bob's trade choice on his shirt left a listing: still a draft, or
\* submitted and waiting in the review queue
InitListings ==
    /\ \E status \in {"draft", "pending_review"} :
          InitStoreWith(<<NewListing(Seller, "lamp", 100),
                          [seller_id |-> "bob", scan_id |-> 1, title |-> "shirt",
                           price_points |-> 36, status |-> status]>>)
    /\ InitClients
    /\ sched = "any"

\* the handlers that write marketplace_listings: the owner's edit, cancel,
\* save and submit, the admins' review, and a purchase
ListingHandlers ==
    \/ \E u \in Users :
         \/ LoadMarket(u)
         \/ \E l \in market[u].listings \cup market[u].myListings : PurchaseBegin(u, l)
         \/ PurchaseInsertOrder(u)
         \/ PurchaseUpdateListing(u)
         \/ PurchaseDebitBuyer(u)
         \/ PurchaseReadSeller(u)
         \/ PurchaseCreditSeller(u)
         \/ PurchaseFinish(u)
         \/ PurchaseReturn(u)
         \/ \E l \in market[u].myListings :
               \/ CancelListing(u, l)
               \/ UpdateListing(u, l, "vase", 60)
               \/ \E autoApprove \in BOOLEAN : SubmitDraft(u, l, l.title, autoApprove)
               \/ SaveDraft(u, l, "vase")
    \/ \E a \in Admins :
         \/ LoadPendingListings(a)
         \/ \E l \in adminTab[a].pendingListings :
               ListingApproveBegin(a, l) \/ ListingRejectBegin(a, l)
         \/ ListingUpdateStatus(a)
         \/ ListingNotify(a)
         \/ ListingRollback(a)

SpecListings == InitListings /\ [][ListingHandlers]_vars

\* scanWithImage alone, on pages that hold the stored stats
InitScan == InitStore /\ InitClients /\ sched = "fresh"

NextScan ==
    \E d \in Devices :
       \/ LoadScanner(d)
       \/ ScanBegin(d)
       \/ ScanClassify(d)
       \/ ScanInsert(d)
       \/ ScanProfile(d)

SpecScan == InitScan /\ [][NextScan]_vars

\* bob's trade choice left a draft listing, shown in his draft list
InitEditor ==
    /\ InitStoreWith(<<NewListing(Seller, "lamp", 100),
                       [seller_id |-> "bob", scan_id |-> 1, title |-> "shirt",
                        price_points |-> 36, status |-> "draft"]>>)
    /\ InitClients
    /\ sched = "any"

\* the draft editor: open, type, check, submit or save
NextEditor ==
    \E u \in Users :
       \/ LoadMarket(u)
       \/ \E l \in market[u].myListings : OpenEditor(u, l)
       \/ \E title \in TypedTitles : EditTitle(u, title)
       \/ SubmitCheck(u)
       \/ CheckReturns(u)
       \/ EditorSubmit(u)
       \/ EditorSaveDraft(u)

SpecEditor == InitEditor /\ [][NextEditor]_vars

\* the points of a disposal choice, for every category and basePoints
SpecPoints == InitPoints /\ [][NextPoints]_vars

\* ------------------------------------------------------------ claims ---
\* A purchase call of u has returned and no other handler ran meanwhile
\* (under SpecSerial); ghost.call[u] holds the stored state it started from.
Returned(u) == market[u].pc = "returned"

\* what the stored state shows of the call of u since it started
OrderAdded(u) ==
    Cardinality(OrdersFor(market[u].selectedListing.id)) # ghost.call[u].orders

StatusChanged(u) ==
    marketplace_listings[market[u].selectedListing.id].status # ghost.call[u].status

BalanceChanged(u) ==
    \/ profiles[u].total_points # ghost.call[u].buyer
    \/ profiles[market[u].selectedListing.sellerId].total_points # ghost.call[u].seller

\* C1: when purchaseListing returns success, the buyer's stored balance is the
\* stored balance before the call minus the price, the seller's is the stored
\* value before the call plus the price, the listing is sold, exactly one
\* order exists for the listing and the sum of the two balances is unchanged.
C1_PurchaseSuccessTransfers ==
    \A u \in Users :
        (Returned(u) /\ market[u].result = "success") =>
            LET l == market[u].selectedListing
                c == ghost.call[u] IN
            /\ profiles[u].total_points = c.buyer - l.pricePoints
            /\ profiles[l.sellerId].total_points = c.seller + l.pricePoints
            /\ marketplace_listings[l.id].status = "sold"
            /\ Cardinality(OrdersFor(l.id)) = 1
            /\ profiles[u].total_points + profiles[l.sellerId].total_points
                  = c.buyer + c.seller

\* C2: of two buyers whose purchaseListing calls both started on the same
\* active listing of a third user, at most one succeeds: the calls do not
\* both return success, each with an order of its own and a debit of its own.
C2_OneConcurrentBuyerWins ==
    \A u, v \in Users :
        (/\ u # v
         /\ Returned(u) /\ Returned(v)
         /\ market[u].selectedListing.id = market[v].selectedListing.id
         /\ market[u].selectedListing.sellerId \notin {u, v}
         /\ ghost.call[u].status = "active" /\ ghost.call[v].status = "active")
        => ~(market[u].result = "success" /\ market[v].result = "success")

\* C3: no ledger update is lost: every account's stored totalPoints equals
\* its initial value plus the sum of all amounts applied to it.
C3_NoLostLedgerUpdate ==
    \A u \in Users : profiles[u].total_points = ghost.expected[u]

\* scan records that entered the review queue (stored pending by a choice
\* other than discard)
ReviewedScans ==
    {s \in DOMAIN scan_history :
        scan_history[s].disposal_choice \in {"donate", "trade", "recycle", "special"}}

\* C4: after any sequence of handleApprove and handleReject calls, a record
\* that ends approved was credited exactly once and a record that ends
\* rejected was never credited.
C4_CreditedExactlyOnce ==
    (\A a \in Admins : AdminIdle(a)) =>
        \A s \in ReviewedScans :
            /\ scan_history[s].status = "approved" => ghost.credits[s] = 1
            /\ scan_history[s].status = "rejected" => ghost.credits[s] = 0

\* C5: once a scan record's stored status is approved or rejected, no step
\* changes it.
C5_TerminalStatusStays ==
    [][\A s \in DOMAIN scan_history :
          scan_history[s].status \in {"approved", "rejected"} =>
              scan_history'[s].status = scan_history[s].status]_vars

\* C6: when a step of purchaseListing after the order insert has failed, the
\* listing is active when the call ends and the buyer debit and the seller
\* credit were both applied or neither was.
C6_FailedPurchaseRollsBack ==
    \A u \in Users :
        (/\ Returned(u)
         /\ ghost.call[u].status = "active"
         /\ ghost.call[u].failedAt \in {"listing", "buyer", "sellerRead", "sellerWrite"})
        => /\ marketplace_listings[market[u].selectedListing.id].status = "active"
           /\ ghost.call[u].debited = ghost.call[u].credited

\* C7: a purchase of another user's active listing by a buyer whose stored
\* totalPoints is below the stored price does not succeed and has no side
\* effect: no order, listing status and balances unchanged.
C7_StoredBalanceChecked ==
    \A u \in Users :
        (/\ Returned(u)
         /\ market[u].selectedListing.sellerId # u
         /\ ghost.call[u].status = "active"
         /\ ghost.call[u].buyer < ghost.call[u].price)
        => /\ market[u].result \in {"insufficient", "failed"}
           /\ ~OrderAdded(u) /\ ~StatusChanged(u) /\ ~BalanceChanged(u)

\* C8: a purchase of another user's listing whose stored status is not
\* active does not succeed and has no side effect: no order row, listing
\* status and both balances unchanged.
C8_StoredStatusChecked ==
    \A u \in Users :
        (/\ Returned(u)
         /\ market[u].selectedListing.sellerId # u
         /\ ghost.call[u].status # "active")
        => /\ market[u].result # "success"
           /\ ~OrderAdded(u) /\ ~StatusChanged(u) /\ ~BalanceChanged(u)

\* C9: each listing has at most one order whose status is not cancelled, and
\* every order has a buyer different from its seller.
C9_OneOrderPerListing ==
    /\ \A l \in DOMAIN marketplace_listings :
          Cardinality({k \in OrdersFor(l) : orders[k].status # "cancelled"}) <= 1
    /\ \A k \in DOMAIN orders : orders[k].buyer_id # orders[k].seller_id

\* C10: every account's stored level equals floor(totalPoints / 100) + 1.
C10_LevelFollowsPoints ==
    \A u \in Users : profiles[u].level = calculateLevel(profiles[u].total_points)

\* C11: no account's stored totalPoints is ever negative, and a purchase of
\* another user's active listing that would overdraw the stored balance
\* changes no balance.
C11_NoOverdraw ==
    /\ \A u \in Users : profiles[u].total_points >= 0
    /\ \A u \in Users :
          (/\ market[u].pc # "idle"
           /\ market[u].selectedListing.sellerId # u
           /\ ghost.call[u].status = "active"
           /\ ghost.call[u].buyer < ghost.call[u].price)
          => ~BalanceChanged(u)

C15_ChoiceAppliedOnce ==
    /\ \A d \in Devices : ghost.rows[d] <= 1
    /\ \A s \in DOMAIN scan_history :
          scan_history[s].disposal_choice = "discard" => ghost.credits[s] <= 1

\* the multiplier table of the claim, in tenths
TableMultiplier10 ==
    [clothing |-> [donate |-> 20, trade |-> 18, discard |-> 10],
     electronics |-> [trade |-> 20, recycle |-> 15, discard |-> 5],
     compost |-> [recycle |-> 15, discard |-> 10],
     recyclable |-> [trade |-> 15, recycle |-> 15, discard |-> 10],
     hazardous |-> [special |-> 20]]

\* the integer nearest to x10 / 10, a half going up
Rounded(x10) == CHOOSE r \in 0..x10 : 10 * r - 5 <= x10 /\ x10 < 10 * r + 5

TablePoints(basePoints, category, choice) ==
    Rounded(basePoints * TableMultiplier10[category][choice])

InTable(category, choice) ==
    /\ category \in DOMAIN TableMultiplier10
    /\ choice \in DOMAIN TableMultiplier10[category]

C14_HazardousSpecialIsTwenty ==
    /\ \A s \in DOMAIN scan_history :
          (scan_history[s].category = "hazardous"
           /\ scan_history[s].disposal_choice = "special")
          => scan_history[s].final_points = 20
    /\ \A d \in Devices : \A i \in DOMAIN localStorage[d].history :
          (localStorage[d].history[i].category = "hazardous"
           /\ localStorage[d].history[i].disposalChoice = "special")
          => localStorage[d].history[i].finalPoints = 20

\* a step of the device's migrateGuestData (its position moves on)
MigrationStep(d) ==
    /\ scanner[d].pc \in {"migrateStats", "migrateHistory"}
    /\ scanner'[d].pc # scanner[d].pc

\* C16: a run of migrateGuestData on a device where a run has already
\* completed, with no scan since, is a no-op: it inserts no scan_history row
\* and changes no profile.
C16_SecondMigrationIsNoOp ==
    [][\A d \in Devices :
          (ghost.runs[d] >= 1 /\ MigrationStep(d))
          => /\ scan_history' = scan_history
             /\ profiles' = profiles]_vars

\* the guest's item was migrated by a first run and a second run completed
C16_Witness ==
    \E d \in Devices :
       /\ ghost.runs[d] >= 2
       /\ \E s \in DOMAIN scan_history : scan_history[s].status = "unset"

\* C17: migrateGuestData interrupted after any prefix of its steps and run
\* again leaves each guest history item in scan_history once (the guest
\* items of one behaviour have one name, so two migrated rows of one account
\* with the same name are one item migrated twice).
C17_RetryDoesNotDuplicate ==
    \A s, t \in DOMAIN scan_history :
       (/\ scan_history[s].status = "unset" /\ scan_history[t].status = "unset"
        /\ scan_history[s].user_id = scan_history[t].user_id
        /\ scan_history[s].item_name = scan_history[t].item_name)
       => s = t

\* the status update of an admin's handleApprove or handleReject
AdminListingUpdate(a) ==
    /\ adminTab[a].pc = "listingUpdate"
    /\ adminTab'[a].pc # "listingUpdate"

\* C18: admin approve and reject move a listing only out of pending_review:
\* the status update of handleApprove or handleReject on a listing whose
\* stored status is no longer pending_review leaves the status unchanged.
C18_ReviewOnlyFromPending ==
    [][\A a \in Admins :
          (/\ AdminListingUpdate(a)
           /\ marketplace_listings[adminTab[a].listing].status # "pending_review")
          => marketplace_listings'[adminTab[a].listing].status =
                marketplace_listings[adminTab[a].listing].status]_vars

\* C19: a listing whose stored status is sold or cancelled keeps its status,
\* title and price in every later step.
C19_TerminalListingImmutable ==
    [][\A l \in DOMAIN marketplace_listings :
          marketplace_listings[l].status \in {"sold", "cancelled"}
          => marketplace_listings'[l] = marketplace_listings[l]]_vars

\* C20: a purchase that returned success has left its order completed, and
\* while no purchase is in flight every sold listing has a completed order.
C20_SoldMeansCompletedOrder ==
    /\ \A u \in Users :
          (Returned(u) /\ market[u].result = "success")
          => \E k \in OrdersFor(market[u].selectedListing.id) :
                orders[k].buyer_id = u /\ orders[k].status = "completed"
    /\ (\A u \in Users : market[u].pc \in {"idle", "returned"})
       => \A l \in DOMAIN marketplace_listings :
             marketplace_listings[l].status = "sold"
             => \E k \in OrdersFor(l) : orders[k].status = "completed"

\* handleDisposalChoice finished on device d: the item shown got its choice
ChoiceSettles(d) ==
    /\ scanner[d].lastScannedItem.disposalChoice = ""
    /\ scanner'[d].lastScannedItem.disposalChoice # ""

\* the points the owner sees after the choice: all of finalPoints in
\* totalPoints and one more item recycled for discard, all of it in
\* pendingPoints for the other choices
ChoiceBooked(old, new, item) ==
    LET now == IF item.disposalChoice = "discard" THEN item.finalPoints ELSE 0
        later == item.finalPoints - now IN
    /\ new.totalPoints = old.totalPoints + now
    /\ new.itemsRecycled = old.itemsRecycled + (IF now = 0 THEN 0 ELSE 1)
    /\ new.pendingPoints = old.pendingPoints + later

ClassifyReturns(d) ==
    /\ scanner[d].pc = "classify"
    /\ scanner'[d].pc # "classify"

\* the stats after one approved scan worth `points`
ScanBooked(old, new, points) ==
    /\ new.totalPoints = old.totalPoints + points
    /\ new.itemsRecycled = old.itemsRecycled + 1
    /\ new.pendingPoints = old.pendingPoints

C23_RetryAndFailureLeaveNoRecord ==
    [][\A d \in Devices :
          (ClassifyReturns(d) /\ ghost'.outcome[d] \in {"retry", "failed"})
          => /\ scan_history' = scan_history
             /\ localStorage' = localStorage
             /\ profiles' = profiles
             /\ scanner'[d].stats = scanner[d].stats
             /\ scanner'[d].scanHistory = scanner[d].scanHistory
             /\ scanner'[d].pc = "idle"
      ]_vars

\* a retry is on show on one device and a classification failed on the
\* other, with nothing stored or saved since the start
C23_Witness ==
    /\ \E d \in Devices :
          /\ ghost.outcome[d] = "retry" /\ scanner[d].lastScannedItem.isRetry
          /\ scanner[d].pc = "idle"
    /\ \E d \in Devices : ghost.outcome[d] = "failed" /\ scanner[d].pc = "idle"
    /\ Len(scan_history) = 1
    /\ \A d \in Devices : ~localStorage[d].hasHistory

\* the stored status of the listing in u's editor changes in this step
EditorChangesStatus(u) ==
    /\ market[u].editor.open
    /\ marketplace_listings'[market[u].editor.id].status #
          marketplace_listings[market[u].editor.id].status

\* C24: handleSubmit sets the status from the compliance action: the
\* listing's status changes only with a result at hand, to active on
\* auto_approve and to pending_review on needs_review, and never while the
\* result is auto_reject (the listing stays as it is).
C24_StatusFollowsCompliance ==
    [][\A u \in Users :
          LET e == market[u].editor
              status == marketplace_listings'[e.id].status IN
          EditorChangesStatus(u)
          => /\ e.result \in {"auto_approve", "needs_review"}
             /\ e.result = "auto_approve" => status = "active"
             /\ e.result = "needs_review" => status = "pending_review"
      ]_vars

\* bob's draft was submitted with needs_review and waits for review
C24_Witness ==
    /\ marketplace_listings[2].status = "pending_review"
    /\ ~market["bob"].editor.open

\* C29: a listing's status is changed by handleSubmit only with a compliance
\* result computed for the title being saved.
C29_ResultIsForSavedTitle ==
    [][\A u \in Users :
          EditorChangesStatus(u)
          => /\ market[u].editor.checked = market[u].editor.title
             /\ marketplace_listings'[market[u].editor.id].title =
                   market[u].editor.checked
      ]_vars

\* a listing row with a scan behind it is appended in this step
TradeListingSpawned ==
    /\ Len(marketplace_listings') = Len(marketplace_listings) + 1
    /\ marketplace_listings'[Len(marketplace_listings')].scan_id # 0

\* C25: every listing spawned for a trade scan, at choice time or at admin
\* approval, is a draft owned by the scan's owner, titled with the item name
\* and priced at twice the scan's finalPoints.
C25_TradeDraftSeededFromScan ==
    [][TradeListingSpawned
       => LET row == marketplace_listings'[Len(marketplace_listings')]
              scan == scan_history'[row.scan_id] IN
          /\ row.status = "draft"
          /\ row.seller_id = scan.user_id
          /\ row.title = scan.item_name
          /\ row.price_points = scan.final_points * 2
      ]_vars

\* C26: the order inserted by purchaseListing records the price stored on
\* the listing at the moment of the purchase, also after the seller's
\* updateListing changed it.
C26_OrderSnapshotsStoredPrice ==
    [][Len(orders') = Len(orders) + 1
       => LET order == orders'[Len(orders')] IN
          order.price_points = marketplace_listings[order.listing_id].price_points
      ]_vars

\* C27: every scan record persisted by scanWithImage or handleDisposalChoice
\* has base points within the classifier's range, MinPoints to MaxPoints,
\* whatever the classification (retries are not persisted).
C27_BasePointsInRange ==
    \A i \in 1..Len(scan_history) :
        scan_history[i].base_points \in MinPoints..MaxPoints

\* migrateGuestData inserts device d's guest history in this step
HistoryMigrated(d) ==
    /\ scanner[d].pc = "migrateHistory"
    /\ Len(scan_history') = Len(scan_history) + Len(localStorage[d].history)
    /\ localStorage[d].history # <<>>

\* C30: guest migration preserves each guest scan's review state: every
\* scan record it inserts has the status, disposal choice and final points
\* of the guest history item it came from.
C30_MigrationKeepsReviewState ==
    [][\A d \in Devices :
          HistoryMigrated(d)
          => \A k \in 1..Len(localStorage[d].history) :
                LET item == localStorage[d].history[k]
                    row == scan_history'[Len(scan_history) + k] IN
                /\ row.status = item.status
                /\ row.disposal_choice = item.disposalChoice
                /\ row.final_points = item.finalPoints
      ]_vars

\* the approved scan records of account u
ApprovedScansOf(u) == {i \in ScansOf(u) : scan_history[i].status = "approved"}

RECURSIVE SumPrices(_)
SumPrices(ids) ==
    IF ids = {} THEN 0
    ELSE LET i == CHOOSE x \in ids : TRUE
         IN orders[i].price_points + SumPrices(ids \ {i})

\* what the records say account u has earned, sold and spent
Ledger(u) ==
    SumFinal(ApprovedScansOf(u))
    + SumPrices({i \in DOMAIN orders : orders[i].seller_id = u})
    - SumPrices({i \in DOMAIN orders : orders[i].buyer_id = u})

\* C28: with no operation in flight, each account's stored totalPoints is
\* its opening balance plus the finalPoints of its approved scan records,
\* plus the prices of the orders it sold, minus the prices of the orders it
\* bought (the opening state has no approved scan and no order).
C28_BalanceMatchesLedger ==
    AllIdle => \A u \in Users :
                  profiles[u].total_points = InitProfiles[u].total_points + Ledger(u)

====
